---- MODULE Spec2Model ----
(***************************************************************************)
(* State-machine model of the two Anchor programs of the repository:       *)
(*   bloom-token  (packages/bloom-contracts/programs/bloom-token/src/lib.rs)*)
(*   bloom-bridge (packages/bridge-infrastructure/programs/bloom-bridge/    *)
(*                 src/lib.rs)                                              *)
(* Every instruction handler is one action.  An instruction that returns   *)
(* Err (or panics) is rolled back by the runtime, so a failing action      *)
(* changes nothing but the record of the last instruction (`last`).        *)
(***************************************************************************)
EXTENDS Integers, Sequences, FiniteSets, TLC

(***************************************************************************)
(* Bounds of the model.                                                    *)
(***************************************************************************)
\* The number of instructions processed in a behaviour.
MaxSteps == 2
\* The longest merkle proof handed to verify_merkle_proof on its own.
MaxProofLen == 2
\* The number of instructions processed in a behaviour of the replay
\* specification: enough for an unlock, a root update or a relayer change,
\* and another unlock of the same transaction id.
MaxReplaySteps == 3

(***************************************************************************)
(* Machine integers.  A u64 is held as its eight bytes, least significant  *)
(* first (to_le_bytes), and the operators below are 64-bit arithmetic on   *)
(* them.                                                                   *)
(***************************************************************************)
\* The u64 with the value n, for a natural number n below 2^31.
U64(n) ==
    << n % 256, (n \div 256) % 256, (n \div 65536) % 256,
       (n \div 16777216) % 256, 0, 0, 0, 0 >>

\* a < b as u64 values.
U64Lt(a, b) ==
    \E i \in 1 .. 8 : /\ a[i] < b[i]
                      /\ \A j \in (i + 1) .. 8 : a[j] = b[j]

\* a + b in u64: the wrapped value and whether the exact sum overflowed.
U64Add(a, b) ==
    LET s1 == a[1] + b[1]
        s2 == a[2] + b[2] + (s1 \div 256)
        s3 == a[3] + b[3] + (s2 \div 256)
        s4 == a[4] + b[4] + (s3 \div 256)
        s5 == a[5] + b[5] + (s4 \div 256)
        s6 == a[6] + b[6] + (s5 \div 256)
        s7 == a[7] + b[7] + (s6 \div 256)
        s8 == a[8] + b[8] + (s7 \div 256)
    IN  [ovf |-> s8 >= 256,
         val |-> << s1 % 256, s2 % 256, s3 % 256, s4 % 256,
                    s5 % 256, s6 % 256, s7 % 256, s8 % 256 >>]

\* a - b in u64: the wrapped value and whether the exact difference is negative.
U64Sub(a, b) ==
    LET d1 == a[1] - b[1]
        d2 == a[2] - b[2] - (IF d1 < 0 THEN 1 ELSE 0)
        d3 == a[3] - b[3] - (IF d2 < 0 THEN 1 ELSE 0)
        d4 == a[4] - b[4] - (IF d3 < 0 THEN 1 ELSE 0)
        d5 == a[5] - b[5] - (IF d4 < 0 THEN 1 ELSE 0)
        d6 == a[6] - b[6] - (IF d5 < 0 THEN 1 ELSE 0)
        d7 == a[7] - b[7] - (IF d6 < 0 THEN 1 ELSE 0)
        d8 == a[8] - b[8] - (IF d7 < 0 THEN 1 ELSE 0)
    IN  [ovf |-> d8 < 0,
         val |-> << (d1 + 256) % 256, (d2 + 256) % 256, (d3 + 256) % 256,
                    (d4 + 256) % 256, (d5 + 256) % 256, (d6 + 256) % 256,
                    (d7 + 256) % 256, (d8 + 256) % 256 >>]

\* a * m for a u64 a and a byte m: the nine bytes of the exact product.
U64MulByte(a, m) ==
    LET c1 == a[1] * m
        c2 == a[2] * m + (c1 \div 256)
        c3 == a[3] * m + (c2 \div 256)
        c4 == a[4] * m + (c3 \div 256)
        c5 == a[5] * m + (c4 \div 256)
        c6 == a[6] * m + (c5 \div 256)
        c7 == a[7] * m + (c6 \div 256)
        c8 == a[8] * m + (c7 \div 256)
    IN  << c1 % 256, c2 % 256, c3 % 256, c4 % 256,
           c5 % 256, c6 % 256, c7 % 256, c8 % 256, c8 \div 256 >>

\* a times the number that the bytes j, j + 1, ... of b make, in u64:
\* a * b[j] + 256 * (a times the number that the bytes above j make).
RECURSIVE U64MulFrom(_, _, _)
U64MulFrom(a, b, j) ==
    IF j > 8 THEN [ovf |-> FALSE, val |-> << 0, 0, 0, 0, 0, 0, 0, 0 >>]
    ELSE LET high == U64MulFrom(a, b, j + 1)
             shifted == << 0, high.val[1], high.val[2], high.val[3],
                           high.val[4], high.val[5], high.val[6],
                           high.val[7] >>
             low == U64MulByte(a, b[j])
             sum == U64Add(shifted, SubSeq(low, 1, 8))
         IN  IF b[j] = 0
             THEN [ovf |-> high.ovf \/ high.val[8] # 0, val |-> shifted]
             ELSE [ovf |-> \/ high.ovf \/ high.val[8] # 0
                           \/ low[9] # 0 \/ sum.ovf,
                   val |-> sum.val]

\* a * b in u64: the wrapped value and whether the exact product overflowed.
U64Mul(a, b) == U64MulFrom(a, b, 1)

\* a / d in u64, for a divisor d that is a positive integer below 2^23: long
\* division from the most significant byte down.
U64Div(a, d) ==
    LET t8 == a[8]
        t7 == (t8 % d) * 256 + a[7]
        t6 == (t7 % d) * 256 + a[6]
        t5 == (t6 % d) * 256 + a[5]
        t4 == (t5 % d) * 256 + a[4]
        t3 == (t4 % d) * 256 + a[3]
        t2 == (t3 % d) * 256 + a[2]
        t1 == (t2 % d) * 256 + a[1]
    IN  << t1 \div d, t2 \div d, t3 \div d, t4 \div d,
           t5 \div d, t6 \div d, t7 \div d, t8 \div d >>

\* An i64 as its eight bytes, least significant first, for an integer of
\* magnitude below 2^31.
I64Bytes(n) ==
    LET m == IF n < 0 THEN n + 2147483647 + 1 ELSE n
        top == IF n < 0 THEN 255 ELSE 0
    IN  << m % 256, (m \div 256) % 256, (m \div 65536) % 256,
           ((m \div 16777216) % 128) + (IF n < 0 THEN 128 ELSE 0),
           top, top, top, top >>

(***************************************************************************)
(* Identities and accounts.                                                *)
(***************************************************************************)
\* Pubkey::default()
DefaultPubkey == 0
\* The keys that can sign a transaction.
Signers == {1, 2}
\* The bridge_data PDA (seeds = [b"bridge_data"]); it signs only inside the
\* bridge program's own CPIs.
BridgePDA == 3
\* The signer of initialize_bridge (its `authority` account, which pays for
\* bridge_data); the handler stores no trace of it.
BridgeAuthority == 2
\* Keys a caller can pass as an instruction argument.
Pubkeys == {DefaultPubkey} \cup Signers
\* The mints an instruction can be handed (every `mint` account of both
\* programs is unconstrained), both created with the token program: the mint
\* handed to initialize_bridge as bloom_token_mint, and a mint of signer 2.
BloomMint == "bloom"
ForeignMint == "foreign"
Mints == {BloomMint, ForeignMint}
\* Token accounts of a mint: one per signer (owned by that signer) and the
\* bridge pool (owned by the bridge_data PDA).  A token account is named by
\* its mint and its owner.
TokenAccounts == Signers \cup {BridgePDA}

\* The [u8; 32] whose bytes are all b.
Bytes32(b) ==
    << b, b, b, b, b, b, b, b, b, b, b, b, b, b, b, b,
       b, b, b, b, b, b, b, b, b, b, b, b, b, b, b, b >>
\* The 32 bytes of a key: the key named k is the one whose bytes are all k,
\* so that Pubkey::default() is the all-zero key.
PubkeyBytes(k) == Bytes32(k)
\* [0u8; 32]
ZeroBytes32 == Bytes32(0)

(***************************************************************************)
(* std's DefaultHasher: SipHash-1-3 with both keys 0, over the bytes       *)
(* written to it.  A 64-bit word is held as its eight bytes, least         *)
(* significant first.                                                      *)
(***************************************************************************)
\* a ^ b on the low n bits.
RECURSIVE BitXor(_, _, _)
BitXor(a, b, n) ==
    IF n = 0 THEN 0
    ELSE ((a + b) % 2) + 2 * BitXor(a \div 2, b \div 2, n - 1)

\* a ^ b for bytes a and b, at index 256 * a + b + 1.
XorTable ==
    [k \in 1 .. 65536 |-> BitXor((k - 1) \div 256, (k - 1) % 256, 8)] \o <<>>

\* a ^ b on 64-bit words.
WordXor(a, b) ==
    << XorTable[256 * a[1] + b[1] + 1], XorTable[256 * a[2] + b[2] + 1],
       XorTable[256 * a[3] + b[3] + 1], XorTable[256 * a[4] + b[4] + 1],
       XorTable[256 * a[5] + b[5] + 1], XorTable[256 * a[6] + b[6] + 1],
       XorTable[256 * a[7] + b[7] + 1], XorTable[256 * a[8] + b[8] + 1] >>

\* a.wrapping_add(b) on 64-bit words.
WordAdd(a, b) == U64Add(a, b).val

\* Byte i of w.rotate_left(8 * q + s), for s below 8.
RotateLeftByte(w, q, s, i) ==
    ((w[((i - 1 - q) % 8) + 1] * (2 ^ s)) % 256)
    + (w[((i - 2 - q) % 8) + 1] \div (2 ^ (8 - s)))

\* w.rotate_left(r) on a 64-bit word.
RotateLeft(w, r) ==
    << RotateLeftByte(w, r \div 8, r % 8, 1),
       RotateLeftByte(w, r \div 8, r % 8, 2),
       RotateLeftByte(w, r \div 8, r % 8, 3),
       RotateLeftByte(w, r \div 8, r % 8, 4),
       RotateLeftByte(w, r \div 8, r % 8, 5),
       RotateLeftByte(w, r \div 8, r % 8, 6),
       RotateLeftByte(w, r \div 8, r % 8, 7),
       RotateLeftByte(w, r \div 8, r % 8, 8) >>

\* Half of a SipRound on two words of the state: x += y, and then
\* y = y.rotate_left(r) ^ x; the pair << x, y >>.
SipMixed(sum, y, r) == << sum, WordXor(RotateLeft(y, r), sum) >>
SipMix(x, y, r) == SipMixed(WordAdd(x, y), y, r)

\* The second half of a SipRound, from the pairs << v0, v1 >> and
\* << v2, v3 >> that the first half left: v0 = v0.rotate_left(32),
\* v0 += v3 with v3 rotated by 21, v2 += v1 with v1 rotated by 17, and
\* v2 = v2.rotate_left(32).
SipRoundJoin(p, q) == << p[1], q[2], RotateLeft(q[1], 32), p[2] >>
SipRoundSecond(p, q) ==
    SipRoundJoin(SipMix(RotateLeft(p[1], 32), q[2], 21), SipMix(q[1], p[2], 17))

\* One SipRound on the state << v0, v1, v2, v3 >>: v0 += v1 with v1 rotated
\* by 13, v2 += v3 with v3 rotated by 16, and the second half.
SipRound(v) == SipRoundSecond(SipMix(v[1], v[2], 13), SipMix(v[3], v[4], 16))

\* The state of a hasher with the keys k0 = k1 = 0: the four constants
\* "somepseu", "dorandom", "lygenera", "tedbytes".
SipInit ==
    << << 117, 101, 115, 112, 101, 109, 111, 115 >>,
       << 109, 111, 100, 110, 97, 114, 111, 100 >>,
       << 97, 114, 101, 110, 101, 103, 121, 108 >>,
       << 115, 101, 116, 121, 98, 100, 101, 116 >> >>

\* The state after one more 64-bit word m of the message: v3 ^= m, one
\* c-round, and v0 ^= m on the state w that the round left.
SipAbsorbed(w, m) == << WordXor(w[1], m), w[2], w[3], w[4] >>
SipCompress(v, m) ==
    SipAbsorbed(SipRound(<< v[1], v[2], v[3], WordXor(v[4], m) >>), m)

\* The state after the bytes i, i + 1, ... of the message: its whole words,
\* and then the last word, made of the bytes left over, zeros, and the length
\* of the message modulo 256 as its top byte.
RECURSIVE SipCompressFrom(_, _, _)
SipCompressFrom(v, bytes, i) ==
    IF i + 7 <= Len(bytes)
    THEN CHOOSE r \in { SipCompressFrom(w, bytes, i + 8) :
                          w \in { SipCompress(v, SubSeq(bytes, i, i + 7)) } } :
                    TRUE
    ELSE SipCompress(v, SubSeq(SubSeq(bytes, i, Len(bytes))
                                 \o << 0, 0, 0, 0, 0, 0, 0 >>, 1, 7)
                          \o << Len(bytes) % 256 >>)

\* v0 ^ v1 ^ v2 ^ v3 of the state << v0, v1, v2, v3 >>.
SipFold(v) == WordXor(WordXor(v[1], v[2]), WordXor(v[3], v[4]))

\* The digest of the state v that the whole message has been compressed
\* into: v2 ^= 0xff, three d-rounds, and the four words folded into one.
SipFinish(v) ==
    SipFold(SipRound(SipRound(SipRound(
        << v[1], v[2],
           WordXor(v[3], << 255, 0, 0, 0, 0, 0, 0, 0 >>), v[4] >>))))

\* SipHash-1-3 of a sequence of bytes under the keys 0, 0: the 64-bit
\* digest, least significant byte first.
SipHash13(bytes) == SipFinish(SipCompressFrom(SipInit, bytes, 1))

(***************************************************************************)
(* Hashing.  The state of a hasher is the sequence of bytes written to it  *)
(* so far.                                                                 *)
(***************************************************************************)
\* DefaultHasher::new()
HasherNew == << >>
\* Hasher::write(bytes)
HasherWrite(h, bytes) == h \o bytes
\* x.hash(&mut hasher) for a u64: its eight bytes.
HashU64(h, x) == HasherWrite(h, x)
\* x.hash(&mut hasher) for an i64: its eight bytes.
HashI64(h, x) == HasherWrite(h, I64Bytes(x))
\* x.hash(&mut hasher) for a [u8; 32]: the length as a usize (eight bytes),
\* then the bytes.
HashBytes32(h, x) == HasherWrite(HasherWrite(h, U64(Len(x))), x)
\* x.hash(&mut hasher) for a Pubkey, a wrapper of a [u8; 32].
HashPubkey(h, x) == HashBytes32(h, PubkeyBytes(x))
\* x.hash(&mut hasher) for a String: its bytes, then 0xff.
HashString(h, x) == HasherWrite(HasherWrite(h, x), << 255 >>)

\* The bytes generate_transaction_id writes to its hasher, with Clock's
\* timestamp.
TransactionIdBytes(user, amount, evm_address, timestamp) ==
    HashI64(HashString(HashU64(HashPubkey(HasherNew, user), amount),
                       evm_address), timestamp)

\* The bytes generate_leaf writes to its hasher.
LeafBytes(user, amount, transaction_id) ==
    HashBytes32(HashU64(HashPubkey(HasherNew, user), amount), transaction_id)

\* The bytes hash_pair writes to its hasher.
PairBytes(left, right) ==
    HashBytes32(HashBytes32(HasherNew, left), right)

\* The digest of the bytes written, copied into result[..8] of a zeroed
\* [u8; 32].
Digest32(h) ==
    SipHash13(h) \o << 0, 0, 0, 0, 0, 0, 0, 0, 0, 0, 0, 0,
                       0, 0, 0, 0, 0, 0, 0, 0, 0, 0, 0, 0 >>

(***************************************************************************)
(* Inputs.                                                                 *)
(***************************************************************************)
\* Amounts passed to lock: below the minimum, in range, above the maximum.
LockAmounts == {U64(1), U64(3), U64(4)}
\* Amounts passed to unlock and emergency_unlock: the net and the gross
\* amount of a lock of 3 at a fee of 5000 basis points.
UnlockAmounts == {U64(2), U64(3)}
\* Amounts passed to mint and burn.
MintAmounts == {U64(3)}
BurnAmounts == {U64(1), U64(3)}
\* The evm_address strings passed to lock, as their bytes: "0x1".
EvmAddresses == { << 48, 120, 49 >> }
\* The transaction id lock_tokens derives for signer 1 locking 3 at the
\* first clock reading.
LockedTransactionId ==
    Digest32(TransactionIdBytes(1, U64(3), << 48, 120, 49 >>, 1))
\* A transaction id of the other chain.
ForeignTransactionId == Bytes32(116)
\* Transaction ids passed to unlock: an id of the other chain, and the id of
\* a lock.
TransactionIds == {ForeignTransactionId, LockedTransactionId}
\* A sibling hash of the relayer's merkle tree.
Sibling == Bytes32(115)
\* Siblings handed to verify_merkle_proof on its own.
VerifySiblings == {ZeroBytes32, Sibling}

(***************************************************************************)
(* The digests of the byte sequences that the inputs above lead the        *)
(* programs to hash, computed once.                                        *)
(***************************************************************************)
\* The digests of a set of byte sequences, as a table (merged with the empty
\* table, which makes it a table of values).
Digests(streams) == [h \in streams |-> Digest32(h)] @@ << >>

\* What generate_transaction_id hashes: a lock by a signer at a clock reading.
TransactionIdStreams ==
    { TransactionIdBytes(user, amount, evm_address, timestamp) :
        user \in Signers, amount \in LockAmounts,
        evm_address \in EvmAddresses, timestamp \in 1 .. (1 + 2 * MaxSteps) }

\* What generate_leaf hashes: the arguments of an unlock.
LeafStreams ==
    { LeafBytes(user, amount, transaction_id) :
        user \in Signers, amount \in UnlockAmounts,
        transaction_id \in TransactionIds }

\* The digests of what is hashed when at most n siblings are hashed onto a
\* leaf or onto the zero array, from the right or from the left.
RECURSIVE FoldDigests(_)
FoldDigests(n) ==
    IF n = 0 THEN Digests(LeafStreams)
    ELSE LET known == FoldDigests(n - 1)
             values == {ZeroBytes32} \cup { known[h] : h \in DOMAIN known }
             pairs == { PairBytes(c, s) : c \in values, s \in VerifySiblings }
                      \cup { PairBytes(s, c) :
                               c \in values, s \in VerifySiblings }
         IN  known @@ Digests(pairs \ DOMAIN known)

KnownDigests == FoldDigests(MaxProofLen) @@ Digests(TransactionIdStreams)

\* hasher.finish(), copied into result[..8] of a zeroed [u8; 32]
HasherFinish(h) ==
    IF h \in DOMAIN KnownDigests THEN KnownDigests[h] ELSE Digest32(h)

\* fn generate_transaction_id(user, amount, evm_address) with Clock's timestamp
generate_transaction_id(user, amount, evm_address, timestamp) ==
    HasherFinish(TransactionIdBytes(user, amount, evm_address, timestamp))

\* fn generate_leaf(user, amount, transaction_id)
generate_leaf(user, amount, transaction_id) ==
    HasherFinish(LeafBytes(user, amount, transaction_id))

\* fn hash_pair(left, right)
hash_pair(left, right) == HasherFinish(PairBytes(left, right))

\* Faulty variant of the loop that hashes the sibling on the left: C17 must
\* tell it apart.
RECURSIVE FoldProof_SiblingLeft(_, _)
FoldProof_SiblingLeft(current, proof) ==
    IF proof = <<>> THEN current
    ELSE FoldProof_SiblingLeft(hash_pair(Head(proof), current), Tail(proof))

\* The loop of verify_merkle_proof: current = hash_pair(current, sibling)
\* for every sibling of the proof, first to last.
RECURSIVE FoldProof(_, _)
FoldProof(current, proof) ==
    IF proof = <<>> THEN current
    ELSE FoldProof(hash_pair(current, Head(proof)), Tail(proof))

\* Faulty variant of verify_merkle_proof that ignores the proof: C5 must
\* tell it apart.
verify_merkle_proof_IgnoresProof(leaf, proof, root) == leaf = root

\* fn verify_merkle_proof(leaf, proof, root)
verify_merkle_proof(leaf, proof, root) == FoldProof(leaf, proof) = root

(***************************************************************************)
(* Inputs made of digests.                                                 *)
(***************************************************************************)
\* Merkle proofs passed to unlock: sequences of sibling hashes.
Proofs == {<<>>, <<Sibling>>}
\* Merkle roots the relayer publishes: the zero root, the single leaf that
\* releases 3 to signer 1 for the other chain's id, the root of that leaf's
\* two-leaf tree, and the single leaf that releases 3 to signer 1 for the id
\* of signer 1's lock.
Roots ==
    {ZeroBytes32,
     generate_leaf(1, U64(3), ForeignTransactionId),
     hash_pair(generate_leaf(1, U64(3), ForeignTransactionId), Sibling),
     generate_leaf(1, U64(3), LockedTransactionId)}
\* Leaves handed to verify_merkle_proof on its own.
VerifyLeaves == {ZeroBytes32, generate_leaf(1, U64(3), ForeignTransactionId)}
\* Merkle proofs handed to verify_merkle_proof on its own: every sequence of
\* at most MaxProofLen siblings.
BoundedProofs == UNION { [1 .. n -> VerifySiblings] : n \in 0 .. MaxProofLen }
\* Roots handed to verify_merkle_proof on its own: the leaves, and the roots
\* of the trees the proofs describe with the sibling on the right or on the
\* left.
VerifyRoots ==
    VerifyLeaves
    \cup { hash_pair(l, s) : l \in VerifyLeaves, s \in VerifySiblings }
    \cup { hash_pair(s, l) : l \in VerifyLeaves, s \in VerifySiblings }
    \cup { hash_pair(hash_pair(l, s), r) :
             l \in VerifyLeaves, s \in VerifySiblings, r \in VerifySiblings }
\* (min_bridge_amount, max_bridge_amount, fee_rate) passed to
\* initialize_bridge, which stores them unvalidated.
BridgeParams ==
    { [min |-> U64(2), max |-> U64(3), fee_rate |-> 5000],
      [min |-> U64(2), max |-> U64(3), fee_rate |-> 20000] }
\* Merkle roots the relayer has published before the first modelled
\* instruction; the zero root stands for none published.
InitialRoots ==
    {ZeroBytes32,
     generate_leaf(1, U64(3), ForeignTransactionId),
     generate_leaf(1, U64(3), LockedTransactionId)}
\* Tokens of the BLOOM mint that every signer holds before the first modelled
\* instruction, issued by the mint's authority with the token program.
InitialHoldings == {0, 3}

(***************************************************************************)
(* Program constants.                                                      *)
(***************************************************************************)
SATS_PER_BTC == 100000000
BTC_PER_BLOOM == 10
SATS_PER_BLOOM == SATS_PER_BTC \div BTC_PER_BLOOM
BPS_DENOMINATOR == 10000

(***************************************************************************)
(* State.                                                                  *)
(***************************************************************************)
VARIABLES
    mint_data,              \* bloom-token MintData account
    bridge_data,            \* bloom-bridge BridgeData account
    user_locked,            \* UserLocked accounts, by user
    processed_transaction,  \* ProcessedTransaction accounts created so far
                            \* (init_if_needed), by transaction id
    token,                  \* SPL token state by mint: authority, supply,
                            \* balances
    overflow_checks,        \* build profile: "on" (overflow panics), "off"
                            \* (overflow wraps), "unknown" until it shows
    now,                    \* the latest reading of
                            \* Clock::get()?.unix_timestamp
    steps,                  \* the number of instructions processed
    last                    \* the last instruction: arguments, result, events

vars == << mint_data, bridge_data, user_locked, processed_transaction, token,
           overflow_checks, now, steps, last >>

accounts == << mint_data, bridge_data, user_locked, processed_transaction,
               token >>

\* The arguments and accounts of an instruction that takes none; `hash` and
\* `root` are empty where no 32-byte value is passed.
NoArgs == [caller |-> DefaultPubkey, user |-> DefaultPubkey,
           amount |-> U64(0),
           key |-> DefaultPubkey, hash |-> <<>>, proof |-> <<>>,
           root |-> <<>>, mint |-> BloomMint, to |-> DefaultPubkey,
           guard_ok |-> TRUE, authority_ok |-> TRUE]

\* What an instruction leaves behind for its caller: the Result and the
\* events emitted (none when the instruction failed).
Outcome(op, args, result, events, ret) ==
    [op |-> op, args |-> args, result |-> result, events |-> events,
     ret |-> ret]

\* The return value of an instruction that returns Ok(()).
NoRet == <<>>

\* The build profiles the program may have been built with, given what its
\* arithmetic has shown so far: overflow-checks on or off.
Builds ==
    IF overflow_checks = "unknown" THEN {"on", "off"} ELSE {overflow_checks}

\* What is known of the build after arithmetic that overflowed (or not)
\* under the build `checks`.
Shown(overflowed, checks) == IF overflowed THEN checks ELSE overflow_checks

\* The runtime discards every account change of a failed instruction.
Fails(op, args, result) ==
    /\ last' = Outcome(op, args, result, <<>>, NoRet)
    /\ UNCHANGED accounts
    /\ UNCHANGED << overflow_checks, now >>

\* A failure after arithmetic that wrapped.
FailsWrapped(op, args, result, overflowed) ==
    /\ last' = Outcome(op, args, result, <<>>, NoRet)
    /\ UNCHANGED accounts
    /\ overflow_checks' = Shown(overflowed, "off")
    /\ UNCHANGED now

\* With overflow-checks on, arithmetic overflow panics: the instruction fails.
Panics(op, args) ==
    /\ last' = Outcome(op, args, "Panic", <<>>, NoRet)
    /\ UNCHANGED accounts
    /\ overflow_checks' = "on"
    /\ UNCHANGED now

(***************************************************************************)
(* The SPL token program, as the handlers call it through CPI.  Each call  *)
(* yields an error name ("" for Ok) and the token state after it.          *)
(***************************************************************************)
TokenOk(t) == [err |-> "", token |-> t]
TokenErr(e) == [err |-> e, token |-> token]

\* token::mint_to(mint, to, authority): the mint's authority must sign.
TokenMintTo(mint, to, auth, signed, amount) ==
    IF token[mint].mint_authority # auth THEN TokenErr("TokenOwnerMismatch")
    ELSE IF ~signed THEN TokenErr("TokenMissingSignature")
    ELSE IF \/ U64Add(token[mint].supply, amount).ovf
            \/ U64Add(token[mint].balance[to], amount).ovf
    THEN TokenErr("TokenOverflow")
    ELSE TokenOk([token EXCEPT ![mint].supply = U64Add(@, amount).val,
                               ![mint].balance[to] = U64Add(@, amount).val])

\* token::burn(mint, from, authority): the owner of `from` must sign.
TokenBurn(mint, from, auth, signed, amount) ==
    IF from # auth THEN TokenErr("TokenOwnerMismatch")
    ELSE IF ~signed THEN TokenErr("TokenMissingSignature")
    ELSE IF U64Lt(token[mint].balance[from], amount)
    THEN TokenErr("TokenInsufficientFunds")
    ELSE TokenOk([token EXCEPT ![mint].supply = U64Sub(@, amount).val,
                               ![mint].balance[from] = U64Sub(@, amount).val])

\* token::transfer(from, to, authority) between two accounts of `mint`: the
\* owner of `from` must sign.
TokenTransfer(mint, from, to, auth, signed, amount) ==
    IF from # auth THEN TokenErr("TokenOwnerMismatch")
    ELSE IF ~signed THEN TokenErr("TokenMissingSignature")
    ELSE IF U64Lt(token[mint].balance[from], amount)
    THEN TokenErr("TokenInsufficientFunds")
    ELSE IF from = to THEN TokenOk(token)
    ELSE IF U64Add(token[mint].balance[to], amount).ovf
    THEN TokenErr("TokenOverflow")
    ELSE TokenOk([token EXCEPT ![mint].balance[from] = U64Sub(@, amount).val,
                               ![mint].balance[to] = U64Add(@, amount).val])

(***************************************************************************)
(* Account constraints.                                                    *)
(***************************************************************************)
\* has_one = authority @ ErrorCode::UnauthorizedAuthority, authority: Signer.
\* BridgeData declares no `authority` field and initialize_bridge records no
\* key for it, so the source does not say what the signer is compared with:
\* whether the constraint lets the signer through is left open
\* (authority_ok), whoever signs.
HasOneAuthority(authority_ok) == authority_ok
\* Faulty variant of the relayer constraint that admits every signer: C9
\* must tell it apart.
HasOneRelayer_AnySigner(signer) == TRUE
\* has_one = relayer @ ErrorCode::UnauthorizedRelayer, relayer: Signer
HasOneRelayer(signer) == bridge_data.relayer = signer
\* has_one = mint_authority @ ErrorCode::UnauthorizedMintAuthority
HasOneMintAuthority(signer) == mint_data.mint_authority = signer

\* One more instruction is processed.
Step == steps' = steps + 1

\* The readings Clock::get()?.unix_timestamp can return to an instruction:
\* the latest reading again (same slot), or a later one.
ClockReadings == {now, now + 1, now + 2}

(***************************************************************************)
(* The two singleton accounts before their programs have created them.     *)
(***************************************************************************)
\* The mint_data PDA (seeds = [b"mint_data"]) while no account exists at its
\* address.
NoMintData ==
    [exists |-> FALSE,
     total_supply |-> U64(0),
     total_minted |-> U64(0),
     total_burned |-> U64(0),
     mint_authority |-> DefaultPubkey,
     mint_guard |-> DefaultPubkey,
     reserve_feed |-> DefaultPubkey]

\* The bridge_data PDA (seeds = [b"bridge_data"]) while no account exists at
\* its address.
NoBridgeData ==
    [exists |-> FALSE,
     relayer |-> DefaultPubkey,
     max_bridge_amount |-> U64(0),
     min_bridge_amount |-> U64(0),
     fee_rate |-> 0,
     total_locked |-> U64(0),
     merkle_root |-> ZeroBytes32,
     merkle_root_update_time |-> 0]

\* mint_data: Account<'info, MintData> and bridge_data: Account<'info,
\* BridgeData> of every instruction but the two initializers: the account is
\* loaded before any constraint is checked, and an account that does not
\* exist fails to load (AccountNotInitialized).
MintDataLoads == mint_data.exists
BridgeDataLoads == bridge_data.exists

(***************************************************************************)
(* Initial state: the bridge initialized, at most one merkle root          *)
(* published (at clock reading 1).  mint_data does not exist:              *)
(* initialize_bloom_mint cannot succeed, and nothing else creates it.      *)
(***************************************************************************)
\* What initialize_bloom_mint, signed by `mint_authority`, stores in mint_data
\* once token::initialize_mint has returned Ok: zero counters, the signer as
\* authority, no guard and no feed.
InitMintData(mint_authority) ==
    [exists |-> TRUE,
     total_supply |-> U64(0),
     total_minted |-> U64(0),
     total_burned |-> U64(0),
     mint_authority |-> mint_authority,
     mint_guard |-> DefaultPubkey,
     reserve_feed |-> DefaultPubkey]

\* initialize_bridge(max_bridge_amount, min_bridge_amount, fee_rate), followed
\* by update_merkle_root(root) at clock reading 1 unless `root` is the zero
\* root.
InitBridgeData(relayer, params, root) ==
    [exists |-> TRUE,
     relayer |-> relayer,
     max_bridge_amount |-> params.max,
     min_bridge_amount |-> params.min,
     fee_rate |-> params.fee_rate,
     total_locked |-> U64(0),
     merkle_root |-> root,
     merkle_root_update_time |-> IF root = ZeroBytes32 THEN 0 ELSE 1]

\* The token program's accounts are the environment of the two programs.  The
\* BLOOM mint was created with the token program; its authority issued
\* `holding` tokens to every signer and then kept the authority (signer 1) or
\* handed it to the bridge_data PDA, the authority unlock_tokens mints with.
InitAccounts ==
    /\ mint_data = NoMintData
    /\ \E holding \in InitialHoldings :
         /\ \E mint_auth \in {1, BridgePDA} :
              token = [m \in Mints |->
                  IF m = BloomMint
                  THEN [mint_authority |-> mint_auth,
                        supply |-> U64(holding * Cardinality(Signers)),
                        balance |-> [a \in TokenAccounts |->
                                       IF a \in Signers THEN U64(holding)
                                       ELSE U64(0)]]
                  ELSE [mint_authority |-> 2,
                        supply |-> U64(0),
                        balance |-> [a \in TokenAccounts |-> U64(0)]]]
    /\ \E params \in BridgeParams, root \in InitialRoots :
         bridge_data = InitBridgeData(1, params, root)
    /\ user_locked = [u \in Signers |->
                        [exists |-> FALSE, amount |-> U64(0),
                         last_update |-> 0]]
    /\ processed_transaction = <<>>
    /\ overflow_checks = "unknown"
    /\ now = 1
    /\ steps = 0

Init ==
    /\ InitAccounts
    /\ last = Outcome("initialize", NoArgs, "Ok", <<>>, NoRet)

(***************************************************************************)
(* The state of a fresh deployment: neither singleton exists, and the only *)
(* mint is the one that signer 2 created with the token program; no        *)
(* account exists at the address of the BLOOM mint.                        *)
(***************************************************************************)
InitFresh ==
    /\ mint_data = NoMintData
    /\ bridge_data = NoBridgeData
    /\ token = [m \in {ForeignMint} |->
                   [mint_authority |-> 2,
                    supply |-> U64(0),
                    balance |-> [a \in TokenAccounts |-> U64(0)]]]
    /\ user_locked = [u \in Signers |->
                        [exists |-> FALSE, amount |-> U64(0),
                         last_update |-> 0]]
    /\ processed_transaction = <<>>
    /\ overflow_checks = "unknown"
    /\ now = 1
    /\ steps = 0
    /\ last = Outcome("deploy", NoArgs, "Ok", <<>>, NoRet)

(***************************************************************************)
(* bloom-bridge instructions.                                              *)
(***************************************************************************)
\* initialize_bridge(max_bridge_amount, min_bridge_amount, fee_rate), signed by
\* `caller` as authority (the payer, which the handler does not store), with
\* `relayer` as the unchecked relayer account.  bridge_data is `init`: the
\* system program creates the account and refuses when one exists at the
\* address; then the handler stores its arguments, unvalidated, and zeroes
\* the counter, the root and its update time.
InitializeBridge(caller, relayer, params) ==
    /\ Step
    /\ LET args == [max_bridge_amount |-> params.max,
                    min_bridge_amount |-> params.min,
                    fee_rate |-> params.fee_rate]
                   @@ [NoArgs EXCEPT !.caller = caller, !.key = relayer]
       IN  IF bridge_data.exists
           THEN Fails("initialize_bridge", args, "AccountAlreadyInUse")
           ELSE /\ bridge_data' = InitBridgeData(relayer, params, ZeroBytes32)
                /\ last' = Outcome("initialize_bridge", args, "Ok", <<>>,
                                   NoRet)
                /\ UNCHANGED << mint_data, user_locked, processed_transaction,
                                token, overflow_checks, now >>

\* set_relayer(new_relayer), signed by `caller` as authority; `relayer` is the
\* unchecked account whose key the event reports as old_relayer.
SetRelayer(caller, new_relayer, relayer, authority_ok) ==
    /\ Step
    /\ LET args == [NoArgs EXCEPT !.caller = caller, !.key = new_relayer,
                                  !.user = relayer,
                                  !.authority_ok = authority_ok]
       IN  IF ~BridgeDataLoads
           THEN Fails("set_relayer", args, "AccountNotInitialized")
           ELSE IF ~HasOneAuthority(authority_ok)
           THEN Fails("set_relayer", args, "UnauthorizedAuthority")
           ELSE /\ bridge_data' = [bridge_data EXCEPT !.relayer = new_relayer]
                /\ last' = Outcome("set_relayer", args, "Ok",
                       << [event |-> "RelayerUpdated", old_relayer |-> relayer,
                           new_relayer |-> new_relayer] >>, NoRet)
                /\ UNCHANGED << mint_data, user_locked, processed_transaction,
                                token, overflow_checks, now >>

\* Faulty variant of update_merkle_root that keeps a root once one is
\* published: C10 must tell it apart.
UpdateMerkleRoot_KeepsFirst(caller, new_root) ==
    /\ Step
    /\ LET args == [NoArgs EXCEPT !.caller = caller, !.hash = new_root]
           kept == IF bridge_data.merkle_root_update_time = 0
                   THEN new_root ELSE bridge_data.merkle_root
       IN  IF ~BridgeDataLoads
           THEN Fails("update_merkle_root", args, "AccountNotInitialized")
           ELSE IF ~(bridge_data.relayer = caller)
           THEN Fails("update_merkle_root", args, "UnauthorizedRelayer")
           ELSE \E timestamp \in ClockReadings :
                /\ now' = timestamp
                /\ bridge_data' = [bridge_data EXCEPT
                                     !.merkle_root = kept,
                                     !.merkle_root_update_time = timestamp]
                /\ last' = Outcome("update_merkle_root", args, "Ok",
                       << [event |-> "MerkleRootUpdated", new_root |-> new_root,
                           timestamp |-> timestamp] >>, NoRet)
                /\ UNCHANGED << mint_data, user_locked, processed_transaction,
                                token, overflow_checks >>

\* update_merkle_root(new_root)
UpdateMerkleRoot(caller, new_root) ==
    /\ Step
    /\ LET args == [NoArgs EXCEPT !.caller = caller, !.hash = new_root]
       IN  IF ~BridgeDataLoads
           THEN Fails("update_merkle_root", args, "AccountNotInitialized")
           ELSE IF ~HasOneRelayer(caller)
           THEN Fails("update_merkle_root", args, "UnauthorizedRelayer")
           ELSE \E timestamp \in ClockReadings :
                /\ now' = timestamp
                /\ bridge_data' = [bridge_data EXCEPT
                                     !.merkle_root = new_root,
                                     !.merkle_root_update_time = timestamp]
                /\ last' = Outcome("update_merkle_root", args, "Ok",
                       << [event |-> "MerkleRootUpdated", new_root |-> new_root,
                           timestamp |-> timestamp] >>, NoRet)
                /\ UNCHANGED << mint_data, user_locked, processed_transaction,
                                token, overflow_checks >>

\* Faulty variant of the minimum check that lets every amount through: C4
\* must tell it apart.
AmountBelowMinimum_Never(amount) == FALSE

\* require!(amount >= bridge_data.min_bridge_amount, AmountBelowMinimum)
AmountBelowMinimum(amount) == U64Lt(amount, bridge_data.min_bridge_amount)

\* require!(amount <= bridge_data.max_bridge_amount, AmountAboveMaximum)
AmountAboveMaximum(amount) == U64Lt(bridge_data.max_bridge_amount, amount)

\* let fee = (amount * bridge_data.fee_rate as u64) / 10000;
LockFee(amount, fee_rate) ==
    LET product == U64Mul(amount, U64(fee_rate))
    IN  [ovf |-> product.ovf, val |-> U64Div(product.val, BPS_DENOMINATOR)]

\* let net_amount = amount - fee;
LockNetAmount(amount, fee) == U64Sub(amount, fee)

\* lock_tokens(amount, evm_address), signed by `user`, with the user's token
\* account of `mint` and `to`, of that mint, as the unchecked
\* bridge_token_account.
LockTokens(user, amount, evm_address, mint, to) ==
    /\ Step
    /\ LET args == [NoArgs EXCEPT !.caller = user, !.user = user,
                                  !.amount = amount, !.key = evm_address,
                                  !.mint = mint, !.to = to]
       IN  IF ~BridgeDataLoads
           THEN Fails("lock_tokens", args, "AccountNotInitialized")
           ELSE IF AmountBelowMinimum(amount)
           THEN Fails("lock_tokens", args, "AmountBelowMinimum")
           ELSE IF AmountAboveMaximum(amount)
           THEN Fails("lock_tokens", args, "AmountAboveMaximum")
           ELSE
           \E fee \in {LockFee(amount, bridge_data.fee_rate)},
              transfer \in {TokenTransfer(mint, user, to, user, TRUE, amount)} :
           \E net \in {LockNetAmount(amount, fee.val)} :
           \E locked \in {U64Add(user_locked[user].amount, net.val)} :
           \E checks \in Builds :
                IF checks = "on" /\ (fee.ovf \/ net.ovf)
                THEN Panics("lock_tokens", args)
                ELSE IF transfer.err # ""
                THEN FailsWrapped("lock_tokens", args, transfer.err,
                                  fee.ovf \/ net.ovf)
                ELSE IF checks = "on" /\ locked.ovf
                THEN Panics("lock_tokens", args)
                ELSE \E timestamp \in ClockReadings :
                     /\ now' = timestamp
                     /\ token' = transfer.token
                     /\ user_locked' = [user_locked EXCEPT ![user] =
                            [exists |-> TRUE, amount |-> locked.val,
                             last_update |-> timestamp]]
                     /\ last' = Outcome("lock_tokens", args, "Ok",
                            << [event |-> "TokensLocked", user |-> user,
                                amount |-> net.val,
                                evm_address |-> evm_address,
                                transaction_id |->
                                    generate_transaction_id(user, amount,
                                        evm_address, timestamp)] >>, NoRet)
                     /\ overflow_checks' =
                            Shown(fee.ovf \/ net.ovf \/ locked.ovf, checks)
                     /\ UNCHANGED << mint_data, bridge_data,
                                     processed_transaction >>

\* Faulty variant of the replay check that finds no id processed: C1 must
\* tell it apart.
AlreadyProcessed_Never(transaction_id) == FALSE

\* require!(!processed_transaction.is_processed, TransactionAlreadyProcessed)
AlreadyProcessed(transaction_id) ==
    /\ transaction_id \in DOMAIN processed_transaction
    /\ processed_transaction[transaction_id].is_processed

\* unlock_tokens(user, amount, transaction_id, merkle_proof), signed by
\* `caller` as relayer; `to` is the unchecked user_token_account, of `mint`.
UnlockTokens(caller, user, amount, transaction_id, merkle_proof, mint, to) ==
    /\ Step
    /\ LET args == [NoArgs EXCEPT !.caller = caller, !.user = user,
                                  !.amount = amount, !.hash = transaction_id,
                                  !.proof = merkle_proof, !.mint = mint,
                                  !.to = to]
           leaf == generate_leaf(user, amount, transaction_id)
       IN  IF ~BridgeDataLoads
           THEN Fails("unlock_tokens", args, "AccountNotInitialized")
           ELSE IF ~HasOneRelayer(caller)
           THEN Fails("unlock_tokens", args, "UnauthorizedRelayer")
           ELSE IF AlreadyProcessed(transaction_id)
           THEN Fails("unlock_tokens", args, "TransactionAlreadyProcessed")
           ELSE IF ~verify_merkle_proof(leaf, merkle_proof,
                                        bridge_data.merkle_root)
           THEN Fails("unlock_tokens", args, "InvalidMerkleProof")
           ELSE
           \E minting \in {TokenMintTo(mint, to, BridgePDA, TRUE, amount)} :
                IF minting.err # ""
                THEN Fails("unlock_tokens", args, minting.err)
                ELSE \E timestamp \in ClockReadings :
                     /\ now' = timestamp
                     /\ processed_transaction' =
                            (transaction_id :>
                                [is_processed |-> TRUE,
                                 processed_at |-> timestamp])
                            @@ processed_transaction
                     /\ token' = minting.token
                     /\ last' = Outcome("unlock_tokens", args, "Ok",
                            << [event |-> "TokensUnlocked", user |-> user,
                                amount |-> amount,
                                transaction_id |-> transaction_id,
                                merkle_root |-> bridge_data.merkle_root] >>,
                            NoRet)
                     /\ UNCHANGED << mint_data, bridge_data, user_locked,
                                     overflow_checks >>

\* emergency_unlock(amount) for `user`, signed by `caller` as authority; `to`
\* is the unchecked user_token_account, of `mint` like the pool's account.
\* The accounts are loaded (bridge_data, user_locked) before has_one is
\* checked.
EmergencyUnlock(caller, user, amount, mint, to, authority_ok) ==
    /\ Step
    /\ LET args == [NoArgs EXCEPT !.caller = caller, !.user = user,
                                  !.amount = amount, !.mint = mint,
                                  !.to = to, !.authority_ok = authority_ok]
       IN  IF ~BridgeDataLoads \/ ~user_locked[user].exists
           THEN Fails("emergency_unlock", args, "AccountNotInitialized")
           ELSE IF ~HasOneAuthority(authority_ok)
           THEN Fails("emergency_unlock", args, "UnauthorizedAuthority")
           ELSE IF U64Lt(user_locked[user].amount, amount)
           THEN Fails("emergency_unlock", args, "InsufficientLockedBalance")
           ELSE
           \E locked \in {U64Sub(user_locked[user].amount, amount)},
              transfer \in {TokenTransfer(mint, BridgePDA, to, BridgePDA,
                                          TRUE, amount)} :
                IF transfer.err # ""
                THEN Fails("emergency_unlock", args, transfer.err)
                ELSE \E timestamp \in ClockReadings :
                     /\ now' = timestamp
                     /\ user_locked' = [user_locked EXCEPT ![user] =
                            [exists |-> TRUE, amount |-> locked.val,
                             last_update |-> timestamp]]
                     /\ token' = transfer.token
                     /\ last' = Outcome("emergency_unlock", args, "Ok", <<>>,
                                        NoRet)
                     /\ UNCHANGED << mint_data, bridge_data,
                                     processed_transaction, overflow_checks >>

\* get_bridge_stats: returns a BridgeStats of constants.
GetBridgeStats ==
    /\ Step
    /\ IF ~BridgeDataLoads
       THEN Fails("get_bridge_stats", NoArgs, "AccountNotInitialized")
       ELSE /\ last' = Outcome("get_bridge_stats", NoArgs, "Ok", <<>>,
                               [total_locked |-> U64(0),
                                merkle_root |-> ZeroBytes32,
                                merkle_root_update_time |-> 0])
            /\ UNCHANGED << accounts, overflow_checks, now >>

(***************************************************************************)
(* bloom-token instructions.                                               *)
(***************************************************************************)
\* `init, mint::authority = mint_authority` on the mint account: Anchor
\* creates the account and initializes it as a mint of that authority, with
\* no supply and no holdings.
AnchorInitMint(t, mint, authority) ==
    (mint :> [mint_authority |-> authority,
              supply |-> U64(0),
              balance |-> [a \in TokenAccounts |-> U64(0)]]) @@ t

\* token::initialize_mint(mint, authority) on the token state t: the token
\* program refuses a mint that is initialized already.
TokenInitializeMint(t, mint, authority) ==
    IF mint \in DOMAIN t THEN TokenErr("TokenAlreadyInUse")
    ELSE TokenOk(AnchorInitMint(t, mint, authority))

\* initialize_bloom_mint(name, symbol, decimals), signed by `caller` as
\* mint_authority, with `mint` as the mint account.  mint_data and mint are
\* both `init`: the system program refuses when an account exists at either
\* address, and Anchor initializes the new mint.  The handler then calls
\* token::initialize_mint on that mint and, if the token program accepts,
\* stores the authority and zero counters, guard and feed.
InitializeBloomMint(caller, mint) ==
    /\ Step
    /\ LET args == [NoArgs EXCEPT !.caller = caller, !.mint = mint]
       IN  IF mint_data.exists \/ mint \in DOMAIN token
           THEN Fails("initialize_bloom_mint", args, "AccountAlreadyInUse")
           ELSE
           \E init \in {TokenInitializeMint(
                            AnchorInitMint(token, mint, caller), mint, caller)} :
                IF init.err # ""
                THEN Fails("initialize_bloom_mint", args, init.err)
                ELSE /\ mint_data' = InitMintData(caller)
                     /\ token' = init.token
                     /\ last' = Outcome("initialize_bloom_mint", args, "Ok",
                                        <<>>, NoRet)
                     /\ UNCHANGED << bridge_data, user_locked,
                                     processed_transaction, overflow_checks,
                                     now >>

\* set_mint_guard(mint_guard)
SetMintGuard(caller, mint_guard) ==
    /\ Step
    /\ LET args == [NoArgs EXCEPT !.caller = caller, !.key = mint_guard]
       IN  IF ~MintDataLoads
           THEN Fails("set_mint_guard", args, "AccountNotInitialized")
           ELSE IF ~HasOneMintAuthority(caller)
           THEN Fails("set_mint_guard", args, "UnauthorizedMintAuthority")
           ELSE /\ mint_data' = [mint_data EXCEPT !.mint_guard = mint_guard]
                /\ last' = Outcome("set_mint_guard", args, "Ok",
                       << [event |-> "MintGuardUpdated",
                           old_guard |-> DefaultPubkey,
                           new_guard |-> mint_guard] >>, NoRet)
                /\ UNCHANGED << bridge_data, user_locked,
                                processed_transaction, token,
                                overflow_checks, now >>

\* set_reserve_feed(reserve_feed)
SetReserveFeed(caller, reserve_feed) ==
    /\ Step
    /\ LET args == [NoArgs EXCEPT !.caller = caller, !.key = reserve_feed]
       IN  IF ~MintDataLoads
           THEN Fails("set_reserve_feed", args, "AccountNotInitialized")
           ELSE IF ~HasOneMintAuthority(caller)
           THEN Fails("set_reserve_feed", args, "UnauthorizedMintAuthority")
           ELSE /\ mint_data' = [mint_data EXCEPT !.reserve_feed = reserve_feed]
                /\ last' = Outcome("set_reserve_feed", args, "Ok",
                       << [event |-> "ReserveFeedUpdated",
                           old_feed |-> DefaultPubkey,
                           new_feed |-> reserve_feed] >>, NoRet)
                /\ UNCHANGED << bridge_data, user_locked,
                                processed_transaction, token,
                                overflow_checks, now >>

\* if mint_data.mint_guard != Pubkey::default() { invoke(guard) ... }: whether
\* the peg check lets the mint through; guard_ok is the guard program's answer.
MintGuardAllows(guard_ok) ==
    mint_data.mint_guard # DefaultPubkey => guard_ok

\* mint_bloom(amount, reason); the caller passes its own key as the unchecked
\* mint_authority account, `mint` as the unchecked mint and `to`, of that
\* mint, as the destination token account.
MintBloom(caller, amount, mint, to, guard_ok) ==
    /\ Step
    /\ LET args == [NoArgs EXCEPT !.caller = caller, !.amount = amount,
                                  !.mint = mint, !.to = to,
                                  !.guard_ok = guard_ok]
       IN  IF ~MintDataLoads
           THEN Fails("mint_bloom", args, "AccountNotInitialized")
           ELSE IF ~MintGuardAllows(guard_ok)
           THEN Fails("mint_bloom", args, "MintWouldBreakPeg")
           ELSE
           \E minting \in {TokenMintTo(mint, to, caller, TRUE, amount)} :
                IF minting.err # ""
                THEN Fails("mint_bloom", args, minting.err)
                ELSE
                \E supply \in {U64Add(mint_data.total_supply, amount)},
                   minted \in {U64Add(mint_data.total_minted, amount)},
                   sats \in {U64Mul(amount, U64(SATS_PER_BLOOM))} :
                \E checks \in Builds :
                     IF checks = "on"
                        /\ (supply.ovf \/ minted.ovf \/ sats.ovf)
                     THEN Panics("mint_bloom", args)
                     ELSE /\ token' = minting.token
                          /\ mint_data' =
                                 [mint_data EXCEPT
                                    !.total_supply = supply.val,
                                    !.total_minted = minted.val]
                          /\ last' = Outcome("mint_bloom", args, "Ok",
                                 << [event |-> "Mint", to |-> to,
                                     amount |-> amount],
                                    [event |-> "PegEnforced",
                                     bloom_amount |-> amount,
                                     required_sats |-> sats.val] >>, NoRet)
                          /\ overflow_checks' =
                                 Shown(supply.ovf \/ minted.ovf \/ sats.ovf,
                                       checks)
                          /\ UNCHANGED << bridge_data, user_locked,
                                          processed_transaction, now >>

\* burn_bloom(amount, reason) from the caller's own token account of the
\* unchecked `mint`
BurnBloom(caller, amount, mint) ==
    /\ Step
    /\ LET args == [NoArgs EXCEPT !.caller = caller, !.amount = amount,
                                  !.mint = mint]
       IN  IF ~MintDataLoads
           THEN Fails("burn_bloom", args, "AccountNotInitialized")
           ELSE
           \E burn \in {TokenBurn(mint, caller, caller, TRUE, amount)} :
           IF burn.err # ""
           THEN Fails("burn_bloom", args, burn.err)
           ELSE
           \E supply \in {U64Sub(mint_data.total_supply, amount)},
              burned \in {U64Add(mint_data.total_burned, amount)} :
           \E checks \in Builds :
                IF checks = "on" /\ (supply.ovf \/ burned.ovf)
                THEN Panics("burn_bloom", args)
                ELSE /\ token' = burn.token
                     /\ mint_data' = [mint_data EXCEPT
                                        !.total_supply = supply.val,
                                        !.total_burned = burned.val]
                     /\ last' = Outcome("burn_bloom", args, "Ok",
                            << [event |-> "Burn", from |-> caller,
                                amount |-> amount] >>, NoRet)
                     /\ overflow_checks' =
                            Shown(supply.ovf \/ burned.ovf, checks)
                     /\ UNCHANGED << bridge_data, user_locked,
                                     processed_transaction, now >>

\* get_peg_info
GetPegInfo ==
    /\ Step
    /\ IF ~MintDataLoads
       THEN Fails("get_peg_info", NoArgs, "AccountNotInitialized")
       ELSE /\ last' = Outcome("get_peg_info", NoArgs, "Ok", <<>>,
                               [bloom_per_btc |-> U64(BTC_PER_BLOOM),
                                sats_per_bloom |-> U64(SATS_PER_BLOOM),
                                peg_statement |-> "Peg: 10 BLOOM = 1 BTC"])
            /\ UNCHANGED << accounts, overflow_checks, now >>

(***************************************************************************)
(* Specification: both programs, their instructions interleaved.  The      *)
(* bridge's instructions are handed the accounts of the BLOOM mint that    *)
(* its clients pass: the pool as bridge_token_account, the user's own      *)
(* token account as user_token_account, the stored relayer as `relayer`    *)
(* of set_relayer.  mint_bloom and burn_bloom are handed either mint.      *)
(* Every instruction is processed while fewer than MaxSteps have been.     *)
(***************************************************************************)
Next ==
    \/ /\ steps < MaxSteps
       /\ \E caller \in Signers, relayer \in Signers, params \in BridgeParams :
            InitializeBridge(caller, relayer, params)
    \/ /\ steps < MaxSteps
       /\ \E caller \in Signers, new_relayer \in Pubkeys,
             authority_ok \in BOOLEAN :
            SetRelayer(caller, new_relayer, bridge_data.relayer, authority_ok)
    \/ /\ steps < MaxSteps
       /\ \E caller \in Signers, new_root \in Roots :
            UpdateMerkleRoot(caller, new_root)
    \/ /\ steps < MaxSteps
       /\ \E user \in Signers, amount \in LockAmounts, evm \in EvmAddresses :
            LockTokens(user, amount, evm, BloomMint, BridgePDA)
    \/ /\ steps < MaxSteps
       /\ \E caller \in Signers, user \in Signers, amount \in UnlockAmounts,
             transaction_id \in TransactionIds, proof \in Proofs :
            UnlockTokens(caller, user, amount, transaction_id, proof,
                         BloomMint, user)
    \/ /\ steps < MaxSteps
       /\ \E caller \in Signers, user \in Signers, amount \in UnlockAmounts,
             authority_ok \in BOOLEAN :
            EmergencyUnlock(caller, user, amount, BloomMint, user,
                            authority_ok)
    \/ /\ steps < MaxSteps
       /\ GetBridgeStats
    \/ /\ steps < MaxSteps
       /\ \E caller \in Signers, mint \in Mints :
            InitializeBloomMint(caller, mint)
    \/ /\ steps < MaxSteps
       /\ \E caller \in Signers, mint_guard \in Pubkeys :
            SetMintGuard(caller, mint_guard)
    \/ /\ steps < MaxSteps
       /\ \E caller \in Signers, reserve_feed \in Pubkeys :
            SetReserveFeed(caller, reserve_feed)
    \/ /\ steps < MaxSteps
       /\ \E caller \in Signers, amount \in MintAmounts, mint \in Mints,
             to \in Signers, guard_ok \in BOOLEAN :
            MintBloom(caller, amount, mint, to, guard_ok)
    \/ /\ steps < MaxSteps
       /\ \E caller \in Signers, amount \in BurnAmounts, mint \in Mints :
            BurnBloom(caller, amount, mint)
    \/ /\ steps < MaxSteps
       /\ GetPegInfo

Spec == Init /\ [][Next]_vars

(***************************************************************************)
(* The bloom-bridge program on its own, its unchecked accounts drawn from  *)
(* the token accounts of the BLOOM mint: bridge_token_account of           *)
(* lock_tokens is the pool's or the user's own, user_token_account of      *)
(* unlock_tokens is the user's or the pool's, user_token_account of        *)
(* emergency_unlock is any signer's, `relayer` of set_relayer is any       *)
(* signer.                                                                 *)
(***************************************************************************)
NextBridge ==
    \/ /\ steps < MaxSteps
       /\ \E caller \in Signers, relayer \in Signers, params \in BridgeParams :
            InitializeBridge(caller, relayer, params)
    \/ /\ steps < MaxSteps
       /\ \E caller \in Signers, new_relayer \in Pubkeys, relayer \in Signers,
             authority_ok \in BOOLEAN :
            SetRelayer(caller, new_relayer, relayer, authority_ok)
    \/ /\ steps < MaxSteps
       /\ \E caller \in Signers, new_root \in Roots :
            UpdateMerkleRoot(caller, new_root)
    \/ /\ steps < MaxSteps
       /\ \E user \in Signers, amount \in LockAmounts, evm \in EvmAddresses :
            \E to \in {BridgePDA, user} :
              LockTokens(user, amount, evm, BloomMint, to)
    \/ /\ steps < MaxSteps
       /\ \E caller \in Signers, user \in Signers, amount \in UnlockAmounts,
             transaction_id \in TransactionIds, proof \in Proofs :
            \E to \in {user, BridgePDA} :
              UnlockTokens(caller, user, amount, transaction_id, proof,
                           BloomMint, to)
    \/ /\ steps < MaxSteps
       /\ \E caller \in Signers, user \in Signers, amount \in UnlockAmounts,
             to \in Signers, authority_ok \in BOOLEAN :
            EmergencyUnlock(caller, user, amount, BloomMint, to, authority_ok)
    \/ /\ steps < MaxSteps
       /\ GetBridgeStats

SpecBridge == Init /\ [][NextBridge]_vars

(***************************************************************************)
(* Replays: the bridge's instructions over MaxReplaySteps steps, handed    *)
(* the accounts its clients pass, with one amount and one user, so that an *)
(* unlock, a root update or a relayer change, and another unlock fit in a  *)
(* behaviour.                                                              *)
(***************************************************************************)
NextReplay ==
    \/ /\ steps < MaxReplaySteps
       /\ \E caller \in Signers, params \in BridgeParams :
            InitializeBridge(caller, caller, params)
    \/ /\ steps < MaxReplaySteps
       /\ \E caller \in Signers, new_relayer \in Signers,
             authority_ok \in BOOLEAN :
            SetRelayer(caller, new_relayer, bridge_data.relayer, authority_ok)
    \/ /\ steps < MaxReplaySteps
       /\ \E caller \in Signers, new_root \in Roots :
            UpdateMerkleRoot(caller, new_root)
    \/ /\ steps < MaxReplaySteps
       /\ \E evm \in EvmAddresses :
            LockTokens(1, U64(3), evm, BloomMint, BridgePDA)
    \/ /\ steps < MaxReplaySteps
       /\ \E caller \in Signers, transaction_id \in TransactionIds,
             proof \in Proofs :
            UnlockTokens(caller, 1, U64(3), transaction_id, proof,
                         BloomMint, 1)
    \/ /\ steps < MaxReplaySteps
       /\ \E caller \in Signers, authority_ok \in BOOLEAN :
            EmergencyUnlock(caller, 1, U64(2), BloomMint, 1, authority_ok)
    \/ /\ steps < MaxReplaySteps
       /\ GetBridgeStats

SpecReplay == Init /\ [][NextReplay]_vars

(***************************************************************************)
(* Initialization: both programs from a fresh deployment, with the         *)
(* initializers and the instructions that touch nothing but the two        *)
(* singletons.  initialize_bloom_mint is handed the address of the BLOOM   *)
(* mint, where no account exists, or the mint of signer 2.  The bridge is   *)
(* created by BridgeAuthority; once it exists any signer may try again.    *)
(***************************************************************************)
NextInit ==
    \/ /\ steps < MaxSteps
       /\ \E caller \in (IF bridge_data.exists THEN Signers
                         ELSE {BridgeAuthority}),
             relayer \in Signers, params \in BridgeParams :
            InitializeBridge(caller, relayer, params)
    \/ /\ steps < MaxSteps
       /\ \E caller \in Signers, new_relayer \in Pubkeys,
             authority_ok \in BOOLEAN :
            SetRelayer(caller, new_relayer, bridge_data.relayer, authority_ok)
    \/ /\ steps < MaxSteps
       /\ \E caller \in Signers, new_root \in Roots :
            UpdateMerkleRoot(caller, new_root)
    \/ /\ steps < MaxSteps
       /\ GetBridgeStats
    \/ /\ steps < MaxSteps
       /\ \E caller \in Signers, mint \in Mints :
            InitializeBloomMint(caller, mint)
    \/ /\ steps < MaxSteps
       /\ \E caller \in Signers, mint_guard \in Pubkeys :
            SetMintGuard(caller, mint_guard)
    \/ /\ steps < MaxSteps
       /\ \E caller \in Signers, reserve_feed \in Pubkeys :
            SetReserveFeed(caller, reserve_feed)
    \/ /\ steps < MaxSteps
       /\ GetPegInfo

SpecInit == InitFresh /\ [][NextInit]_vars

(***************************************************************************)
(* verify_merkle_proof on its own: the initial state draws a leaf, a proof *)
(* and a root, and the one step applies the function to them.              *)
(***************************************************************************)
InitVerify ==
    /\ InitAccounts
    /\ \E leaf \in VerifyLeaves, proof \in BoundedProofs, root \in VerifyRoots :
         last = Outcome("verify_merkle_proof",
                        [NoArgs EXCEPT !.hash = leaf, !.proof = proof,
                                       !.root = root],
                        "Pending", <<>>, NoRet)

ApplyVerify ==
    /\ last.result = "Pending"
    /\ last' = [last EXCEPT !.result =
                   IF verify_merkle_proof(last.args.hash, last.args.proof,
                                          last.args.root)
                   THEN "true" ELSE "false"]
    /\ UNCHANGED << accounts, overflow_checks, now, steps >>

NextVerify == ApplyVerify

SpecVerify == InitVerify /\ [][NextVerify]_vars

(***************************************************************************)
(* The error kinds of the specification, as sets of the programs' error    *)
(* codes.                                                                  *)
(***************************************************************************)
\* Unauthorized: the has_one errors of both programs, and the token
\* program's refusal of an authority that is not the right key or did not sign.
ErrUnauthorized ==
    {"UnauthorizedAuthority", "UnauthorizedRelayer", "UnauthorizedMintAuthority",
     "TokenOwnerMismatch", "TokenMissingSignature"}
\* AmountOutOfRange
ErrAmountOutOfRange == {"AmountBelowMinimum", "AmountAboveMaximum"}

\* The instruction of the step, its arguments and its result.
StepOp == last'.op
StepArgs == last'.args
StepResult == last'.result
StepEvents == last'.events

\* `new` is `old` plus k, exactly: the 64-bit sum has not wrapped around.
IncreasedBy(old, new, k) ==
    /\ ~U64Add(old, k).ovf
    /\ new = U64Add(old, k).val

\* `new` is `old` minus k, exactly: the 64-bit difference has not wrapped
\* around.
DecreasedBy(old, new, k) ==
    /\ ~U64Sub(old, k).ovf
    /\ new = U64Sub(old, k).val

(***************************************************************************)
(* Properties.                                                             *)
(***************************************************************************)
\* The leaf of an unlock's arguments, folded with its proof.
FoldedRoot(args) ==
    FoldProof(generate_leaf(args.user, args.amount, args.hash), args.proof)

\* The ProcessedTransaction account of `transaction_id` exists among
\* `records` and is marked processed.
IsProcessed(records, transaction_id) ==
    /\ transaction_id \in DOMAIN records
    /\ records[transaction_id].is_processed

\* C1: for every transaction id at most one unlock succeeds.  Once the
\* ProcessedTransaction record of an id is processed it stays processed in
\* every later state, whatever instruction runs (root updates and relayer
\* changes included), and every later unlock for that id fails and mints
\* nothing, whatever its proof; submitted by the relayer it fails with
\* TransactionAlreadyProcessed.
C1_UnlockAtMostOnce ==
    [][\A t \in TransactionIds :
         IsProcessed(processed_transaction, t) =>
           /\ IsProcessed(processed_transaction', t)
           /\ processed_transaction'[t] = processed_transaction[t]
           /\ (StepOp = "unlock_tokens" /\ StepArgs.hash = t) =>
                /\ StepResult # "Ok"
                /\ StepEvents = <<>>
                /\ token' = token
                /\ (StepArgs.caller = bridge_data.relayer =>
                      StepResult = "TransactionAlreadyProcessed")]_vars

\* C1 witness: an id was unlocked, the merkle root was then replaced (its
\* update time is a later clock reading than the one at which the id was
\* processed) by a root that differs from the leaf the first unlock was
\* verified against, and the relayer's next unlock of the id, with a proof
\* that is valid against the new root, has been rejected.
C1_Witness ==
    /\ last.op = "unlock_tokens"
    /\ last.result = "TransactionAlreadyProcessed"
    /\ IsProcessed(processed_transaction, last.args.hash)
    /\ FoldedRoot(last.args) = bridge_data.merkle_root
    /\ last.args.proof # <<>>
    /\ bridge_data.merkle_root_update_time
         > processed_transaction[last.args.hash].processed_at

\* C3: a successful lock followed by a successful (hence proven) unlock for
\* that lock's user and transaction id mints the lock's amount less the fee
\* floor(amount * fee_rate / 10000).
C3_UnlockMintsNetOfLock ==
    [][(/\ last.op = "lock_tokens" /\ last.result = "Ok"
        /\ StepOp = "unlock_tokens" /\ StepResult = "Ok"
        /\ StepArgs.user = last.args.user
        /\ StepArgs.hash = last.events[1].transaction_id)
       => LET amount == last.args.amount
              product == U64Mul(amount, U64(bridge_data.fee_rate))
              fee == U64Div(product.val, BPS_DENOMINATOR)
          IN  /\ ~product.ovf
              /\ ~U64Lt(amount, fee)
              /\ IncreasedBy(token[StepArgs.mint].supply,
                             token'[StepArgs.mint].supply,
                             U64Sub(amount, fee).val)]_vars

\* C4: a lock with amount < min_bridge_amount or amount > max_bridge_amount
\* fails with an AmountOutOfRange error, emits nothing and changes no account
\* (no token moves, no locked balance or last_update changes).
C4_LockOutOfRangeRejected ==
    [][(/\ StepOp = "lock_tokens"
        /\ \/ U64Lt(StepArgs.amount, bridge_data.min_bridge_amount)
           \/ U64Lt(bridge_data.max_bridge_amount, StepArgs.amount))
       => /\ StepResult \in ErrAmountOutOfRange
          /\ StepEvents = <<>>
          /\ UNCHANGED accounts]_vars

\* C4 witness: a lock above the maximum has been rejected although the user
\* holds enough tokens for it.
C4_Witness ==
    /\ last.op = "lock_tokens"
    /\ last.result = "AmountAboveMaximum"
    /\ U64Lt(bridge_data.max_bridge_amount, last.args.amount)
    /\ ~U64Lt(bridge_data.max_bridge_amount, bridge_data.min_bridge_amount)
    /\ ~U64Lt(token[last.args.mint].balance[last.args.user],
              last.args.amount)

\* C5: an unlock submitted by the relayer for an id that is not processed,
\* whose leaf does not fold with the proof to the stored merkle root, fails
\* with InvalidMerkleProof and changes no account: the id stays unprocessed
\* and nothing is minted.
C5_BadProofRejected ==
    [][(/\ StepOp = "unlock_tokens"
        /\ StepArgs.caller = bridge_data.relayer
        /\ ~IsProcessed(processed_transaction, StepArgs.hash)
        /\ FoldedRoot(StepArgs) # bridge_data.merkle_root)
       => /\ StepResult = "InvalidMerkleProof"
          /\ StepEvents = <<>>
          /\ UNCHANGED accounts]_vars

\* C5 witness: an unlock has been rejected for its proof, its id is still
\* unprocessed, and the same arguments are valid against another root the
\* relayer can publish.
C5_Witness ==
    /\ last.op = "unlock_tokens"
    /\ last.result = "InvalidMerkleProof"
    /\ ~IsProcessed(processed_transaction, last.args.hash)
    /\ FoldedRoot(last.args) \in Roots
    /\ token[last.args.mint].mint_authority = BridgePDA

\* C7: a mint on an existing ledger by a caller other than the stored
\* mint_authority, and an emergency_unlock for a user with a UserLocked account
\* by a caller other than the bridge authority (the signer that initialized
\* the bridge), fail with Unauthorized and change no account.
C7_PrivilegedCallsChecked ==
    [][/\ (/\ StepOp = "mint_bloom"
           /\ mint_data.exists
           /\ StepArgs.caller # mint_data.mint_authority)
          => (StepResult \in ErrUnauthorized /\ UNCHANGED accounts)
       /\ (/\ StepOp = "emergency_unlock"
           /\ user_locked[StepArgs.user].exists
           /\ StepArgs.caller # BridgeAuthority)
          => (StepResult \in ErrUnauthorized /\ UNCHANGED accounts)]_vars

\* An admin update event carrying `value` as its new value has been emitted.
EmittedUpdate(events, event, field, value) ==
    /\ Len(events) = 1
    /\ events[1].event = event
    /\ events[1][field] = value

\* C8: set_relayer by a caller other than the bridge authority (the signer
\* that initialized the bridge) fails with Unauthorized and changes no
\* account, and by the bridge authority it succeeds, stores the argument and
\* emits RelayerUpdated carrying it; set_mint_guard and set_reserve_feed on an
\* existing ledger do the same with the stored mint_authority and their own
\* update events.
C8_SettersAuthorityGated ==
      [][/\ StepOp = "set_relayer" =>
              IF StepArgs.caller # BridgeAuthority
              THEN StepResult \in ErrUnauthorized /\ UNCHANGED accounts
              ELSE /\ StepResult = "Ok"
                   /\ bridge_data'.relayer = StepArgs.key
                   /\ EmittedUpdate(StepEvents, "RelayerUpdated",
                                    "new_relayer", StepArgs.key)
         /\ (StepOp = "set_mint_guard" /\ mint_data.exists) =>
              IF StepArgs.caller # mint_data.mint_authority
              THEN StepResult \in ErrUnauthorized /\ UNCHANGED accounts
              ELSE /\ StepResult = "Ok"
                   /\ mint_data'.mint_guard = StepArgs.key
                   /\ EmittedUpdate(StepEvents, "MintGuardUpdated",
                                    "new_guard", StepArgs.key)
         /\ (StepOp = "set_reserve_feed" /\ mint_data.exists) =>
              IF StepArgs.caller # mint_data.mint_authority
              THEN StepResult \in ErrUnauthorized /\ UNCHANGED accounts
              ELSE /\ StepResult = "Ok"
                   /\ mint_data'.reserve_feed = StepArgs.key
                   /\ EmittedUpdate(StepEvents, "ReserveFeedUpdated",
                                    "new_feed", StepArgs.key)]_vars

\* C9: update_merkle_root and unlock by a caller that is not the stored
\* relayer fail with Unauthorized and change no account (neither the merkle
\* root nor any ProcessedTransaction record); by the stored relayer they are
\* never refused as unauthorized, and update_merkle_root succeeds.  A
\* successful set_relayer makes its argument the stored relayer.
C9_RelayerOnly ==
    [][/\ StepOp \in {"update_merkle_root", "unlock_tokens"} =>
            IF StepArgs.caller # bridge_data.relayer
            THEN /\ StepResult = "UnauthorizedRelayer"
                 /\ UNCHANGED accounts
            ELSE /\ StepResult # "UnauthorizedRelayer"
                 /\ StepOp = "update_merkle_root" => StepResult = "Ok"
       /\ (StepOp = "set_relayer" /\ StepResult = "Ok") =>
            bridge_data'.relayer = StepArgs.key]_vars

\* C9 witness: after set_relayer replaced the initial relayer (signer 1) by
\* signer 2, a call of the previous relayer has been refused.
C9_Witness ==
    /\ bridge_data.relayer = 2
    /\ last.op \in {"update_merkle_root", "unlock_tokens"}
    /\ last.args.caller = 1
    /\ last.result = "UnauthorizedRelayer"

\* C10: the stored merkle root is the argument of the most recent successful
\* update_merkle_root (no other step changes it), every successful unlock is
\* one whose leaf folds to the root stored at that moment and its
\* TokensUnlocked event carries that root, and the relayer's unlock of an
\* unprocessed id that does not fold to it fails with InvalidMerkleProof.
C10_LatestRootVerifies ==
    [][/\ IF StepOp = "update_merkle_root" /\ StepResult = "Ok"
          THEN bridge_data'.merkle_root = StepArgs.hash
          ELSE bridge_data'.merkle_root = bridge_data.merkle_root
       /\ (StepOp = "unlock_tokens" /\ StepResult = "Ok") =>
            /\ FoldedRoot(StepArgs) = bridge_data.merkle_root
            /\ Len(StepEvents) = 1
            /\ StepEvents[1].event = "TokensUnlocked"
            /\ StepEvents[1].merkle_root = bridge_data.merkle_root
       /\ (/\ StepOp = "unlock_tokens"
           /\ StepArgs.caller = bridge_data.relayer
           /\ ~IsProcessed(processed_transaction, StepArgs.hash)
           /\ FoldedRoot(StepArgs) # bridge_data.merkle_root) =>
            StepResult = "InvalidMerkleProof"]_vars

\* C10 witness: after update_merkle_root replaced the root by one that was
\* not stored at the start, the relayer's unlock whose proof folds to a root
\* that could have been stored then has been rejected.
C10_Witness ==
    /\ bridge_data.merkle_root \in Roots \ InitialRoots
    /\ last.op = "unlock_tokens"
    /\ last.result = "InvalidMerkleProof"
    /\ last.args.caller = bridge_data.relayer
    /\ FoldedRoot(last.args) \in InitialRoots \ {ZeroBytes32}

\* C11: an emergency_unlock that the authority constraint admits, for a user
\* with a UserLocked account, fails with InsufficientLockedBalance and changes no
\* account when amount exceeds the locked balance; otherwise it succeeds,
\* decreases that balance by amount, and moves amount from the bridge pool to
\* the user's token account.
C11_EmergencyUnlockChecksBalance ==
    [][(/\ StepOp = "emergency_unlock"
        /\ StepArgs.authority_ok
        /\ user_locked[StepArgs.user].exists)
       => IF U64Lt(user_locked[StepArgs.user].amount, StepArgs.amount)
          THEN /\ StepResult = "InsufficientLockedBalance"
               /\ UNCHANGED accounts
          ELSE /\ StepResult = "Ok"
               /\ DecreasedBy(user_locked[StepArgs.user].amount,
                              user_locked'[StepArgs.user].amount,
                              StepArgs.amount)
               /\ DecreasedBy(token[StepArgs.mint].balance[BridgePDA],
                              token'[StepArgs.mint].balance[BridgePDA],
                              StepArgs.amount)
               /\ IncreasedBy(token[StepArgs.mint].balance[StepArgs.user],
                              token'[StepArgs.mint].balance[StepArgs.user],
                              StepArgs.amount)]_vars

\* C12: in every reachable state BridgeData has min_bridge_amount <=
\* max_bridge_amount and fee_rate <= 10000 basis points.
C12_BridgeParamsValid ==
    /\ ~U64Lt(bridge_data.max_bridge_amount, bridge_data.min_bridge_amount)
    /\ bridge_data.fee_rate <= BPS_DENOMINATOR

\* C13: a successful lock moves the full amount from the user's token account
\* to the bridge pool, increases that user's locked balance by net_amount =
\* amount - floor(amount * fee_rate / 10000) with the fee no larger than the
\* amount, leaves every other user's UserLocked unchanged, and emits one
\* TokensLocked event carrying net_amount.
C13_LockCreditsNetAmount ==
    [][(StepOp = "lock_tokens" /\ StepResult = "Ok")
       => LET u == StepArgs.user
              m == StepArgs.mint
              amount == StepArgs.amount
              product == U64Mul(amount, U64(bridge_data.fee_rate))
              fee == U64Div(product.val, BPS_DENOMINATOR)
              net_amount == U64Sub(amount, fee).val
          IN  /\ ~product.ovf
              /\ ~U64Lt(amount, fee)
              /\ DecreasedBy(token[m].balance[u], token'[m].balance[u],
                             StepArgs.amount)
              /\ IncreasedBy(token[m].balance[BridgePDA],
                             token'[m].balance[BridgePDA], StepArgs.amount)
              /\ IncreasedBy(user_locked[u].amount, user_locked'[u].amount,
                             net_amount)
              /\ \A v \in Signers \ {u} : user_locked'[v] = user_locked[v]
              /\ Len(StepEvents) = 1
              /\ StepEvents[1].event = "TokensLocked"
              /\ StepEvents[1].amount = net_amount]_vars

\* C14: a successful unlock is counted in the supply ledger: MintData's
\* total_supply and total_minted each increase by the unlocked amount.
C14_UnlockCountedInLedger ==
    [][(StepOp = "unlock_tokens" /\ StepResult = "Ok")
       => /\ IncreasedBy(mint_data.total_supply, mint_data'.total_supply,
                         StepArgs.amount)
          /\ IncreasedBy(mint_data.total_minted, mint_data'.total_minted,
                         StepArgs.amount)]_vars

\* C15: each singleton can be initialized exactly once.  An initialize of a
\* singleton that does not exist yet, handed accounts that can be created,
\* succeeds and creates it with its initial values: BridgeData with the
\* arguments, no locked total and the zero root, MintData with the signer as
\* authority, zero counters and no guard or feed.  An initialize of a
\* singleton that exists fails, emits nothing and changes no account.
C15_InitializeOnlyOnce ==
    [][/\ StepOp = "initialize_bridge" =>
            IF bridge_data.exists
            THEN /\ StepResult # "Ok"
                 /\ StepEvents = <<>>
                 /\ UNCHANGED accounts
            ELSE /\ StepResult = "Ok"
                 /\ bridge_data' =
                        InitBridgeData(StepArgs.key,
                            [min |-> StepArgs.min_bridge_amount,
                             max |-> StepArgs.max_bridge_amount,
                             fee_rate |-> StepArgs.fee_rate], ZeroBytes32)
       /\ StepOp = "initialize_bloom_mint" =>
            IF mint_data.exists
            THEN /\ StepResult # "Ok"
                 /\ StepEvents = <<>>
                 /\ UNCHANGED accounts
            ELSE StepArgs.mint \notin DOMAIN token =>
                 /\ StepResult = "Ok"
                 /\ mint_data' = InitMintData(StepArgs.caller)]_vars

\* C16: every UserLocked amount (a u64, so never negative as stored) grows
\* only in a successful lock of that user, shrinks only in a successful
\* emergency_unlock for that user, and is left unchanged by every other step.
C16_LockedBalanceDiscipline ==
    [][\A u \in Signers :
         /\ U64Lt(user_locked[u].amount, user_locked'[u].amount)
              => (/\ StepOp = "lock_tokens"
                  /\ StepResult = "Ok"
                  /\ StepArgs.user = u)
         /\ U64Lt(user_locked'[u].amount, user_locked[u].amount)
              => (/\ StepOp = "emergency_unlock"
                  /\ StepResult = "Ok"
                  /\ StepArgs.user = u)]_vars

\* The value left after hashing the first n siblings of the proof onto the
\* leaf, the running value on the left and the sibling on the right.
RECURSIVE FoldedUpTo(_, _, _)
FoldedUpTo(leaf, proof, n) ==
    IF n = 0 THEN leaf
    ELSE hash_pair(FoldedUpTo(leaf, proof, n - 1), proof[n])

\* C17: verify_merkle_proof(leaf, proof, root) is true exactly when hashing
\* the siblings left to right onto the leaf yields root; with an empty proof
\* exactly when leaf = root; and it is true for a two-sibling proof of
\* root = H(H(leaf, s1), s2).
C17_VerifyFoldsLeftToRight ==
    (last.op = "verify_merkle_proof" /\ last.result # "Pending")
    => LET leaf == last.args.hash
           proof == last.args.proof
           root == last.args.root
       IN  /\ (last.result = "true")
                <=> (FoldedUpTo(leaf, proof, Len(proof)) = root)
           /\ Len(proof) = 0 => ((last.result = "true") <=> (leaf = root))
           /\ (/\ Len(proof) = 2
               /\ root = hash_pair(hash_pair(leaf, proof[1]), proof[2]))
              => last.result = "true"

\* C17 witness: a two-sibling proof has been accepted for a root other than
\* the leaf and other than the value after the first sibling.
C17_Witness ==
    /\ last.op = "verify_merkle_proof"
    /\ last.result = "true"
    /\ Len(last.args.proof) = 2
    /\ last.args.root # last.args.hash
    /\ last.args.root # hash_pair(last.args.hash, last.args.proof[1])

\* C18: burn_bloom fails with the token program's insufficient-funds error
\* exactly when the source account holds fewer than amount tokens, and then
\* leaves the counters unchanged; every burn the token program accepts
\* succeeds, total_supply decreasing by amount and total_burned increasing by
\* amount, also for tokens issued by unlock_tokens.
C18_BurnFollowsTokenProgram ==
    [][(StepOp = "burn_bloom")
       => LET amount == StepArgs.amount
              held == token[StepArgs.mint].balance[StepArgs.caller]
          IN  IF U64Lt(held, amount)
              THEN /\ StepResult = "TokenInsufficientFunds"
                   /\ UNCHANGED mint_data
              ELSE /\ StepResult = "Ok"
                   /\ DecreasedBy(mint_data.total_supply,
                                  mint_data'.total_supply, amount)
                   /\ IncreasedBy(mint_data.total_burned,
                                  mint_data'.total_burned, amount)
                   /\ DecreasedBy(held,
                          token'[StepArgs.mint].balance[StepArgs.caller],
                          amount)]_vars

\* C19: a mint_bloom that no configured guard rejects and the token program
\* accepts succeeds, increases total_supply and total_minted by exactly
\* amount and emits PegEnforced with required_sats = amount * SATS_PER_BLOOM,
\* no counter or product wrapping around.
C19_MintExactWithoutWrap ==
    [][(/\ StepOp = "mint_bloom"
        /\ mint_data.mint_guard = DefaultPubkey \/ StepArgs.guard_ok
        /\ TokenMintTo(StepArgs.mint, StepArgs.to, StepArgs.caller, TRUE,
                       StepArgs.amount).err = "")
       => /\ StepResult = "Ok"
          /\ IncreasedBy(mint_data.total_supply, mint_data'.total_supply,
                         StepArgs.amount)
          /\ IncreasedBy(mint_data.total_minted, mint_data'.total_minted,
                         StepArgs.amount)
          /\ \E i \in 1 .. Len(StepEvents) :
               /\ StepEvents[i].event = "PegEnforced"
               /\ StepEvents[i].bloom_amount = StepArgs.amount
               /\ ~U64Mul(StepArgs.amount, U64(SATS_PER_BLOOM)).ovf
               /\ StepEvents[i].required_sats
                    = U64Mul(StepArgs.amount, U64(SATS_PER_BLOOM)).val]_vars

\* C20: get_bridge_stats changes no account and returns the bridge's current
\* total_locked, merkle_root and merkle_root_update_time, so that after
\* update_merkle_root(r) it reports merkle_root = r.
C20_StatsReportBridgeData ==
    [][(StepOp = "get_bridge_stats")
       => /\ StepResult = "Ok"
          /\ UNCHANGED accounts
          /\ last'.ret.total_locked = bridge_data.total_locked
          /\ last'.ret.merkle_root = bridge_data.merkle_root
          /\ last'.ret.merkle_root_update_time
               = bridge_data.merkle_root_update_time]_vars

\* The balance of the pool's token account.
PoolBalance == token[BloomMint].balance[BridgePDA]

\* C21: unlock_tokens, successful or failed, leaves every locked balance,
\* bridge_data.total_locked and the pool's token balance unchanged, and it
\* succeeds without any prior lock of the user.
C21_UnlockLeavesLockedAndPool ==
    [][(StepOp = "unlock_tokens")
       => /\ UNCHANGED << user_locked, bridge_data >>
          /\ PoolBalance' = PoolBalance]_vars

\* The sum of all locked balances, in u64.
TotalUserLocked == U64Add(user_locked[1].amount, user_locked[2].amount)

\* C22: the pool's token balance is at least the sum of all locked balances
\* in every reachable state, and an emergency_unlock that the authority
\* constraint admits and that passes the locked-balance check does not fail
\* for lack of pool funds.
C22_PoolSolvency ==
    /\ [](/\ ~TotalUserLocked.ovf
          /\ ~U64Lt(PoolBalance, TotalUserLocked.val))
    /\ [][(/\ StepOp = "emergency_unlock"
           /\ StepArgs.authority_ok
           /\ user_locked[StepArgs.user].exists
           /\ ~U64Lt(user_locked[StepArgs.user].amount, StepArgs.amount))
          => StepResult = "Ok"]_vars

====
